---------------------------- MODULE Spec2Model ----------------------------
(***************************************************************************)
(* Model of the Voice Translation FastAPI backend (src/main.py).           *)
(*                                                                         *)
(* The four business handlers are `async def` coroutines run on one event  *)
(* loop.  translate_text, text_to_speech and get_languages contain no      *)
(* `await`, so each of them runs from request to response as one atomic    *)
(* step.  speech_to_text contains exactly one `await` (audio.read(), line  *)
(* 146), so it is two atomic steps: everything up to the await, and        *)
(* everything after it.  Other requests may run while it is suspended.     *)
(*                                                                         *)
(* The external libraries (googletrans, SpeechRecognition, langdetect,     *)
(* gTTS, tempfile, file I/O) are collaborators: every call either returns  *)
(* a value or raises, and the model draws that outcome from a small set.   *)
(*                                                                         *)
(* Text is a sequence of one-character strings; a message built by an      *)
(* f-string is the sequence of its fragments.                              *)
(***************************************************************************)
EXTENDS Integers, Sequences, FiniteSets, TLC

\* ------------------------------------------------------------------ bounds
\* longest request text
MaxLen == 2
\* number of requests received in one behaviour
MaxRequests == 2

\* ------------------------------------------------------------ input sets
Whitespace == {" "}
Alphabet == Whitespace \cup {"a"}
Texts == UNION {[1..n -> Alphabet] : n \in 0..MaxLen}
\* language codes a caller may send ("hi" is in the catalog, "en" is not)
LangCodes == {"en", "hi"}
\* uploaded audio payloads, as byte sequences
AudioBlobs == {<<>>, <<82, 73>>}
\* names the temp-file facility can hand out; never exhausted
Paths == 1..MaxRequests
NoPath == <<>>
NoFile == <<-1>>

\* ------------------------------------------------------- the 22 languages
\* mutant: Santali given the code of Sanskrit
IndianLanguages_dup ==
    [Assamese |-> "as", Bengali |-> "bn", Bodo |-> "brx", Dogri |-> "doi",
     Gujarati |-> "gu", Hindi |-> "hi", Kannada |-> "kn", Kashmiri |-> "ks",
     Konkani |-> "kok", Maithili |-> "mai", Malayalam |-> "ml",
     Manipuri |-> "mni", Marathi |-> "mr", Nepali |-> "ne", Odia |-> "or",
     Punjabi |-> "pa", Sanskrit |-> "sa", Santali |-> "sa", Sindhi |-> "sd",
     Tamil |-> "ta", Telugu |-> "te", Urdu |-> "ur"]

IndianLanguages ==
    [Assamese |-> "as", Bengali |-> "bn", Bodo |-> "brx", Dogri |-> "doi",
     Gujarati |-> "gu", Hindi |-> "hi", Kannada |-> "kn", Kashmiri |-> "ks",
     Konkani |-> "kok", Maithili |-> "mai", Malayalam |-> "ml",
     Manipuri |-> "mni", Marathi |-> "mr", Nepali |-> "ne", Odia |-> "or",
     Punjabi |-> "pa", Sanskrit |-> "sa", Santali |-> "sat", Sindhi |-> "sd",
     Tamil |-> "ta", Telugu |-> "te", Urdu |-> "ur"]

VARIABLES
    indian_languages,  \* the module-level catalog dict
    disk,              \* temp directory: path -> file content, or NoFile
    inflight,          \* speech_to_text coroutines suspended at the await
    received,          \* number of requests received so far
    last               \* the request the latest step responded to, if any

vars == <<indian_languages, disk, inflight, received, last>>

\* ------------------------------------------------------------- exceptions
NoExc == [type |-> "none", status_code |-> 0, detail |-> <<>>]

HTTPException(code, detail) ==
    [type |-> "HTTPException", status_code |-> code, detail |-> detail]

Exc(type, msg) == [type |-> type, status_code |-> 0, detail |-> <<msg>>]

\* outcome of one collaborator call: a return value or a raised exception
Returned(v) == [ok |-> TRUE, val |-> v, exc |-> NoExc]
Raised(e) == [ok |-> FALSE, val |-> <<>>, exc |-> e]

\* the outcome slot of a call the handler never reached
NotCalled == [ok |-> FALSE, val |-> <<>>, exc |-> NoExc]
\* the outcomes to draw for a call: those in S if the call is reached
Reached(reached, S) == IF reached THEN S ELSE {NotCalled}

StatusStr(code) ==
    CASE code = 400 -> "400" [] code = 500 -> "500" [] OTHER -> "?"

\* str(e): an HTTPException prints as "<status>: <detail>", any other
\* exception as its message
str(e) ==
    IF e.type = "HTTPException"
    THEN <<StatusStr(e.status_code), ": ">> \o e.detail
    ELSE e.detail

\* The framework's rendering of an HTTPException that leaves a handler.
ErrorResponse(e) ==
    [status_code |-> e.status_code, body |-> [detail |-> e.detail]]

\* The framework's rendering of a returned value.
OkResponse(body) == [status_code |-> 200, body |-> body]

\* --------------------------------------------------------------- str.strip
RECURSIVE lstrip(_)
lstrip(s) ==
    IF Len(s) = 0 THEN <<>>
    ELSE IF Head(s) \in Whitespace THEN lstrip(Tail(s)) ELSE s

RECURSIVE rstrip(_)
rstrip(s) ==
    IF Len(s) = 0 THEN <<>>
    ELSE IF s[Len(s)] \in Whitespace
         THEN rstrip(SubSeq(s, 1, Len(s) - 1)) ELSE s

\* mutant: only leading whitespace removed
strip_left_only(s) == lstrip(s)

strip(s) == rstrip(lstrip(s))

\* ------------------------------------------------------------ trace events
\* What one request did, in order: used to state ordering claims.
Validate == [ev |-> "validate", op |-> "", args |-> <<>>]
Call(op, args) == [ev |-> "call", op |-> op, args |-> args]

Respond == [ev |-> "respond", op |-> "", args |-> <<>>]

\* result of a try body: a returned response body or a raised exception,
\* with what the body did before that and the temp directory it left
Return(body, trace, d) ==
    [ok |-> TRUE, body |-> body, exc |-> NoExc, trace |-> trace, disk |-> d]
Raise(e, trace, d) ==
    [ok |-> FALSE, body |-> <<>>, exc |-> e, trace |-> trace, disk |-> d]

\* what a handler hands to the framework
Handled(response, r) ==
    [response |-> response, trace |-> r.trace \o <<Respond>>,
     disk |-> r.disk, raised |-> r.exc]

\* ------------------------------------------------- collaborator outcomes
TranslatedTexts == {<<"x">>, <<"a">>}
TranslateOutcomes ==
    {Returned(t) : t \in TranslatedTexts}
        \cup {Raised(Exc("ConnectError", "translate connection failed"))}

FreePaths(d) == {p \in Paths : d[p] = NoFile}
\* tempfile.NamedTemporaryFile(delete=False): a fresh name, or an OS error
CreateOutcomes(d) ==
    {Returned(<<p>>) : p \in FreePaths(d)}
        \cup {Raised(Exc("OSError", "No space left on device"))}

\* await audio.read(), temp_audio.write(content), open(...).read()
IOOutcomes == {Returned(<<>>), Raised(Exc("OSError", "Input/output error"))}

\* sr.AudioFile(path) and recognizer.record(source)
LoadOutcomes ==
    {Returned(<<>>),
     Raised(Exc("ValueError", "Audio file could not be read as PCM WAV"))}

RecognizedTexts == {<<>>, <<"a">>}
\* recognizer.recognize_google(audio_data, language=...)
RecognizeOutcomes ==
    {Returned(t) : t \in RecognizedTexts}
        \cup {Raised(Exc("UnknownValueError", "")),
              Raised(Exc("RequestError", "recognition connection failed"))}

DetectCodes == {"hi"}
\* langdetect.detect(text): a code, or LangDetectException when the text
\* has no features the detector can use
DetectOutcomes ==
    {[ok |-> TRUE, val |-> c, exc |-> NoExc] : c \in DetectCodes}
        \cup {[ok |-> FALSE, val |-> "",
               exc |-> Exc("LangDetectException", "No features in text.")]}

\* gTTS(text=..., lang=..., slow=False)
ConstructOutcomes ==
    {Returned(<<>>), Raised(Exc("ValueError", "Language not supported"))}

SynthBytes == {<<255, 243>>}
\* tts.save(path)
SaveOutcomes ==
    {Returned(b) : b \in SynthBytes}
        \cup {Raised(Exc("gTTSError", "Failed to connect"))}

\* ----------------------------------------------------------- /api/translate
\* mutant: the call repeated, as a retry would
call_translate_retry(text, request) ==
    <<Call("translate", <<text, request.source_lang, request.target_lang>>),
      Call("translate", <<text, request.source_lang, request.target_lang>>)>>

\* lines 114-118
call_translate(text, request) ==
    <<Call("translate", <<text, request.source_lang, request.target_lang>>)>>

\* lines 120-126
TranslationResponse(translated, text, request) ==
    [translated_text |-> translated.val,
     original_text |-> text,
     source_lang |-> request.source_lang,
     target_lang |-> request.target_lang,
     status |-> "success"]

\* lines 108-126, the try body
translate_try(request, translated, d) ==
    LET text == strip(request.text) IN
    IF Len(text) = 0
    THEN Raise(HTTPException(400, <<"Text is required">>), <<Validate>>, d)
    ELSE LET trace == <<Validate>> \o call_translate(text, request) IN
         IF ~translated.ok
         THEN Raise(translated.exc, trace, d)
         ELSE Return(TranslationResponse(translated, text, request), trace, d)

\* mutant: the failure reported under a success status code
translate_except_200(e) ==
    HTTPException(200, <<"Translation failed: ">> \o str(e))

\* lines 128-132, except Exception as e
translate_except(e) ==
    HTTPException(500, <<"Translation failed: ">> \o str(e))

translate_text_result(request, translated, d) ==
    LET r == translate_try(request, translated, d) IN
    IF r.ok THEN Handled(OkResponse(r.body), r)
    ELSE Handled(ErrorResponse(translate_except(r.exc)), r)

\* ----------------------------------------------------------- /api/languages
\* lines 230-233
get_languages_result(catalog) ==
    OkResponse([languages |-> catalog, status |-> "success"])

\* ------------------------------------------------------- base64.b64encode
\* The encoded text as a sequence of base64 digit values 0..63, with 64
\* standing for the padding character '='.
RECURSIVE b64encode(_)
b64encode(b) ==
    IF Len(b) = 0 THEN <<>>
    ELSE IF Len(b) = 1
    THEN <<b[1] \div 4, (b[1] % 4) * 16, 64, 64>>
    ELSE IF Len(b) = 2
    THEN <<b[1] \div 4, (b[1] % 4) * 16 + b[2] \div 16, (b[2] % 16) * 4, 64>>
    ELSE <<b[1] \div 4, (b[1] % 4) * 16 + b[2] \div 16,
           (b[2] % 16) * 4 + b[3] \div 64, b[3] % 64>>
             \o b64encode(SubSeq(b, 4, Len(b)))

\* ------------------------------------------------------ /api/speech-to-text
None == "None"

\* lines 156-159, language=f"{source_lang}-IN"
call_recognize(audio_data, source_lang) ==
    <<Call("recognize", <<audio_data, <<source_lang, "-IN">>>>)>>

\* line 162, detect(text)
call_detect(text) == <<Call("detect", <<text>>)>>

\* lines 167-172
SpeechRecognitionResponse(text, source_lang, detected_lang) ==
    [recognized_text |-> text,
     source_lang |-> source_lang,
     detected_lang |-> detected_lang,
     status |-> "success"]

\* lines 146-172: the try body from the await on, for the temp file `name`
\* created at line 145
speech_try(request, name, read, write, load, recognized, detected, d) ==
    IF ~read.ok THEN Raise(read.exc, <<>>, d)
    ELSE IF ~write.ok THEN Raise(write.exc, <<>>, d)
    ELSE
    LET written == [d EXCEPT ![name] = request.audio] IN
    IF ~load.ok THEN Raise(load.exc, <<>>, written)
    ELSE
    LET recognize == call_recognize(written[name], request.source_lang) IN
    IF ~recognized.ok THEN Raise(recognized.exc, recognize, written)
    ELSE
    LET text == recognized.val
        trace == IF Len(text) # 0 THEN recognize \o call_detect(text)
                 ELSE recognize
    IN
    IF Len(text) # 0 /\ ~detected.ok THEN Raise(detected.exc, trace, written)
    ELSE
    LET detected_lang == IF Len(text) # 0 THEN detected.val ELSE None
        unlinked == [written EXCEPT ![name] = NoFile]
    IN  Return(SpeechRecognitionResponse(text, request.source_lang,
                                         detected_lang),
               trace, unlinked)

\* mutant: the UnknownValueError clause missing
speech_except_broad(e) ==
    HTTPException(500, <<"Speech recognition failed: ">> \o str(e))

\* lines 174-183, the two except clauses in order
speech_except(e) ==
    IF e.type = "UnknownValueError"
    THEN HTTPException(400, <<"Could not understand the speech">>)
    ELSE HTTPException(500, <<"Speech recognition failed: ">> \o str(e))

speech_to_text_result(r) ==
    IF r.ok THEN Handled(OkResponse(r.body), r)
    ELSE Handled(ErrorResponse(speech_except(r.exc)), r)

\* ------------------------------------------------------ /api/text-to-speech
\* line 202, tts.save of the gTTS object built at line 197
call_synthesize(text, target_lang) ==
    <<Call("synthesize", <<text, target_lang>>)>>

\* lines 212-216
TTSResponse(audio_base64, target_lang) ==
    [audio_data |-> audio_base64,
     target_lang |-> target_lang,
     status |-> "success"]

\* lines 191-216, the try body
tts_try(request, constructed, created, saved, read, d) ==
    LET text == strip(request.text) IN
    IF Len(text) = 0
    THEN Raise(HTTPException(400, <<"Text is required">>), <<Validate>>, d)
    ELSE IF ~constructed.ok THEN Raise(constructed.exc, <<Validate>>, d)
    ELSE IF ~created.ok THEN Raise(created.exc, <<Validate>>, d)
    ELSE
    LET temp_audio_path == created.val[1]
        opened == [d EXCEPT ![temp_audio_path] = <<>>]
        trace == <<Validate>> \o call_synthesize(text, request.target_lang)
    IN
    IF ~saved.ok THEN Raise(saved.exc, trace, opened)
    ELSE
    LET written == [opened EXCEPT ![temp_audio_path] = saved.val] IN
    IF ~read.ok THEN Raise(read.exc, trace, written)
    ELSE
    LET audio_base64 == b64encode(written[temp_audio_path])
        unlinked == [written EXCEPT ![temp_audio_path] = NoFile]
    IN  Return(TTSResponse(audio_base64, request.target_lang),
               trace, unlinked)

\* lines 218-222, except Exception as e
tts_except(e) ==
    HTTPException(500, <<"Text-to-speech failed: ">> \o str(e))

text_to_speech_result(r) ==
    IF r.ok THEN Handled(OkResponse(r.body), r)
    ELSE Handled(ErrorResponse(tts_except(r.exc)), r)

\* the temp file a text_to_speech request created, if it got that far
tts_tempfile(request, constructed, created) ==
    IF Len(strip(request.text)) # 0 /\ constructed.ok /\ created.ok
    THEN created.val ELSE NoPath

\* ------------------------------------------------------------------ state
\* `last` when the latest step delivered no response
NoRequest ==
    [id |-> 0, endpoint |-> "", request |-> <<>>,
     response |-> [status_code |-> 0, body |-> <<>>],
     trace |-> <<>>, raised |-> NoExc, tempfile |-> NoPath]

Completed(endpoint, request, h, path) ==
    [id |-> received + 1, endpoint |-> endpoint, request |-> request,
     response |-> h.response, trace |-> h.trace, raised |-> h.raised,
     tempfile |-> path]

Init ==
    /\ indian_languages = IndianLanguages
    /\ disk = [p \in Paths |-> NoFile]
    /\ inflight = <<>>
    /\ received = 0
    /\ last = NoRequest

translate_text ==
    /\ received < MaxRequests
    /\ \E text \in Texts, src \in LangCodes, dst \in LangCodes :
       \E translated \in Reached(Len(strip(text)) # 0, TranslateOutcomes) :
          LET request == [text |-> text, source_lang |-> src,
                          target_lang |-> dst]
              h == translate_text_result(request, translated, disk)
          IN  /\ last' = Completed("/api/translate", request, h, NoPath)
              /\ disk' = h.disk
    /\ received' = received + 1
    /\ UNCHANGED <<indian_languages, inflight>>

get_languages ==
    /\ received < MaxRequests
    /\ last' = [id |-> received + 1, endpoint |-> "/api/languages",
                request |-> <<>>,
                response |-> get_languages_result(indian_languages),
                trace |-> <<Respond>>, raised |-> NoExc,
                tempfile |-> NoPath]
    /\ received' = received + 1
    /\ UNCHANGED <<indian_languages, disk, inflight>>

text_to_speech ==
    /\ received < MaxRequests
    /\ \E text \in Texts, dst \in LangCodes :
       \E constructed \in Reached(Len(strip(text)) # 0, ConstructOutcomes) :
       \E created \in Reached(constructed.ok, CreateOutcomes(disk)) :
       \E saved \in Reached(created.ok, SaveOutcomes) :
       \E read \in Reached(saved.ok, IOOutcomes) :
          LET request == [text |-> text, target_lang |-> dst]
              h == text_to_speech_result(
                       tts_try(request, constructed, created, saved, read,
                               disk))
          IN  /\ last' = Completed("/api/text-to-speech", request, h,
                                   tts_tempfile(request, constructed, created))
              /\ disk' = h.disk
    /\ received' = received + 1
    /\ UNCHANGED <<indian_languages, inflight>>

\* lines 143-146: create the temp file, then suspend at `await audio.read()`
speech_to_text_begin ==
    /\ received < MaxRequests
    /\ \E audio \in AudioBlobs, source_lang \in LangCodes,
          created \in CreateOutcomes(disk) :
          LET request == [audio |-> audio, source_lang |-> source_lang] IN
          IF created.ok
          THEN /\ disk' = [disk EXCEPT ![created.val[1]] = <<>>]
               /\ inflight' =
                      [i \in DOMAIN inflight \cup {received + 1} |->
                          IF i = received + 1
                          THEN [request |-> request, name |-> created.val[1]]
                          ELSE inflight[i]]
               /\ last' = NoRequest
          ELSE /\ last' = Completed("/api/speech-to-text", request,
                              speech_to_text_result(
                                  Raise(created.exc, <<>>, disk)),
                              NoPath)
               /\ UNCHANGED <<disk, inflight>>
    /\ received' = received + 1
    /\ UNCHANGED indian_languages

\* lines 146-183: the rest of the handler, once audio.read() completes
speech_to_text_resume ==
    /\ \E i \in DOMAIN inflight, read \in IOOutcomes :
       \E write \in Reached(read.ok, IOOutcomes) :
       \E load \in Reached(write.ok, LoadOutcomes) :
       \E recognized \in Reached(load.ok, RecognizeOutcomes) :
       \E detected \in Reached(recognized.ok /\ Len(recognized.val) # 0,
                               DetectOutcomes) :
          LET c == inflight[i]
              h == speech_to_text_result(
                       speech_try(c.request, c.name, read, write, load,
                                  recognized, detected, disk))
          IN  /\ last' = [id |-> i, endpoint |-> "/api/speech-to-text",
                          request |-> c.request, response |-> h.response,
                          trace |-> h.trace, raised |-> h.raised,
                          tempfile |-> <<c.name>>]
              /\ disk' = h.disk
              /\ inflight' = [j \in DOMAIN inflight \ {i} |-> inflight[j]]
    /\ UNCHANGED <<indian_languages, received>>

Next ==
    \/ translate_text
    \/ speech_to_text_begin
    \/ speech_to_text_resume
    \/ text_to_speech
    \/ get_languages

Spec == Init /\ [][Next]_vars

\* ===================================================================
\* Properties
\* ===================================================================
Responded == last.id # 0
StatusCode == last.response.status_code
Body == last.response.body
Is2xx(code) == code \in 200..299
Success == "status" \in DOMAIN Body /\ Body.status = "success"
IsTranslate == last.endpoint = "/api/translate"
IsSpeech == last.endpoint = "/api/speech-to-text"
IsTTS == last.endpoint = "/api/text-to-speech"
IsLanguages == last.endpoint = "/api/languages"

\* empty, or whitespace only
Blank(t) == \A i \in 1..Len(t) : t[i] \in Whitespace

\* u is t without its leading and trailing whitespace
IsTrimOf(u, t) ==
    \E i \in 1..(Len(t) + 1), j \in 0..Len(t) :
        /\ u = IF i <= j THEN SubSeq(t, i, j) ELSE <<>>
        /\ \A k \in 1..(i - 1) : t[k] \in Whitespace
        /\ \A k \in (j + 1)..Len(t) : t[k] \in Whitespace
        /\ Len(u) > 0 => (u[1] \notin Whitespace /\ u[Len(u)] \notin Whitespace)

\* positions in the request's trace of calls to the collaborators in ops
CallIndices(ops) ==
    {i \in 1..Len(last.trace) :
        last.trace[i].ev = "call" /\ last.trace[i].op \in ops}
HasCall(op) == CallIndices({op}) # {}

Collaborators == {"translate", "recognize", "synthesize"}

\* exception types that only a collaborator call raises
CallFailures ==
    {"ConnectError", "UnknownValueError", "RequestError", "gTTSError",
     "LangDetectException"}

\* C1 (as claimed): a /api/translate request whose text is empty or only
\* whitespace gets status 400 with detail "Text is required", and the
\* translation collaborator is not called.
C1_BlankTranslateIs400 ==
    (IsTranslate /\ Blank(last.request.text)) =>
        /\ StatusCode = 400
        /\ Body = [detail |-> <<"Text is required">>]
        /\ ~HasCall("translate")

\* C2 (as claimed): a /api/text-to-speech request whose text is empty or
\* only whitespace gets status 400 with a non-empty detail, without a call
\* to the synthesis collaborator and without a temporary file.
C2_BlankTTSIs400 ==
    (IsTTS /\ Blank(last.request.text)) =>
        /\ StatusCode = 400
        /\ DOMAIN Body = {"detail"}
        /\ Len(Body.detail) > 0
        /\ ~HasCall("synthesize")
        /\ last.tempfile = NoPath

\* C3 (as claimed): when a /api/speech-to-text handler returns its response,
\* on any exit path, the temporary file it created has been deleted.
C3_SpeechTempFileDeleted ==
    (IsSpeech /\ last.tempfile # NoPath) => disk[last.tempfile[1]] = NoFile

\* C4 (as claimed): when a /api/text-to-speech handler that created a
\* temporary file returns, on any exit path, that file has been deleted.
C4_TTSTempFileDeleted ==
    (IsTTS /\ last.tempfile # NoPath) => disk[last.tempfile[1]] = NoFile

\* C5: a /api/speech-to-text response is 400 "Could not understand the
\* speech" exactly when recognition raised UnknownValueError, 500 carrying
\* the underlying message for every other failure, and 200 otherwise; no
\* other status code occurs.
C5_SpeechErrorMapping ==
    IsSpeech =>
        /\ StatusCode \in {200, 400, 500}
        /\ StatusCode = 400 <=> last.raised.type = "UnknownValueError"
        /\ StatusCode = 400 =>
              /\ HasCall("recognize") /\ ~HasCall("detect")
              /\ Body = [detail |-> <<"Could not understand the speech">>]
        /\ StatusCode = 500 <=>
              last.raised.type \notin {"none", "UnknownValueError"}
        /\ StatusCode = 500 =>
              Body = [detail |-> <<"Speech recognition failed: ">>
                                     \o last.raised.detail]
        /\ StatusCode = 200 <=> last.raised.type = "none"

C5_Witness ==
    /\ IsSpeech
    /\ StatusCode = 400
    /\ last.raised.type = "UnknownValueError"

\* C6 (as claimed): for every non-empty text, /api/translate with identical
\* source and target language and a collaborator that is called and succeeds
\* returns status "success" with original_text equal to the request's text
\* exactly, both codes echoed and passed to the collaborator as given.
C6_OriginalTextIsRequestText ==
    (/\ IsTranslate
     /\ Len(last.request.text) # 0
     /\ last.request.source_lang = last.request.target_lang
     /\ HasCall("translate")
     /\ last.raised.type \notin CallFailures) =>
        /\ StatusCode = 200
        /\ Success
        /\ Body.original_text = last.request.text
        /\ Body.source_lang = last.request.source_lang
        /\ Body.target_lang = last.request.target_lang
        /\ HasCall("translate")
        /\ \A i \in CallIndices({"translate"}) :
              /\ last.trace[i].args[2] = last.request.source_lang
              /\ last.trace[i].args[3] = last.request.target_lang

\* C6 (amended): for every text that is non-empty after trimming,
\* /api/translate with identical source and target language and a
\* collaborator that does not fail returns status "success" with
\* original_text equal to the request's text with its leading and trailing
\* whitespace removed; both codes are echoed and passed to the collaborator
\* as given, together with the trimmed text.
C6_OriginalTextIsTrimmedText ==
    (/\ IsTranslate
     /\ ~Blank(last.request.text)
     /\ last.request.source_lang = last.request.target_lang
     /\ last.raised.type \notin CallFailures) =>
        /\ StatusCode = 200
        /\ Success
        /\ IsTrimOf(Body.original_text, last.request.text)
        /\ Body.source_lang = last.request.source_lang
        /\ Body.target_lang = last.request.target_lang
        /\ HasCall("translate")
        /\ \A i \in CallIndices({"translate"}) :
              last.trace[i].args = <<Body.original_text,
                                     last.request.source_lang,
                                     last.request.target_lang>>

C6_Witness ==
    /\ IsTranslate
    /\ ~Blank(last.request.text)
    /\ last.request.text[1] \in Whitespace
    /\ last.request.source_lang = last.request.target_lang
    /\ StatusCode = 200

\* C7: every response of a business endpoint carries status "success" if
\* and only if its HTTP status is 2xx; a non-2xx response holds only
\* `detail`, a 2xx response holds no `detail`, and a request whose handler
\* body raised never gets a 2xx response.
C7_SuccessIff2xx ==
    Responded =>
        /\ Success <=> Is2xx(StatusCode)
        /\ ~Is2xx(StatusCode) => DOMAIN Body = {"detail"}
        /\ Is2xx(StatusCode) => "detail" \notin DOMAIN Body
        /\ last.raised.type # "none" => ~Is2xx(StatusCode)

C7_Witness ==
    /\ IsTranslate
    /\ last.raised.type = "ConnectError"
    /\ StatusCode = 500
    /\ DOMAIN Body = {"detail"}

\* C8: the catalog always has exactly 22 entries with pairwise distinct,
\* non-empty codes, no handler changes it, and /api/languages returns that
\* mapping with status "success" whatever requests came before.
C8_CatalogFixed ==
    /\ indian_languages = IndianLanguages
    /\ Cardinality(DOMAIN indian_languages) = 22
    /\ \A a, b \in DOMAIN indian_languages :
          a # b => indian_languages[a] # indian_languages[b]
    /\ \A a \in DOMAIN indian_languages : indian_languages[a] # ""
    /\ IsLanguages =>
          /\ StatusCode = 200
          /\ Body = [languages |-> IndianLanguages, status |-> "success"]

C8_Witness ==
    /\ IsLanguages
    /\ last.id > 1
    /\ \E p \in Paths : disk[p] # NoFile
    /\ Cardinality(DOMAIN Body.languages) = 22

PassesValidation == (IsTranslate \/ IsTTS) => ~Blank(last.request.text)

\* every collaborator call of the request comes after its validation (on
\* the endpoints that validate) and before its response, the last event
CallsOrdered ==
    /\ \A i \in 1..Len(last.trace) :
          last.trace[i].ev = "respond" <=> i = Len(last.trace)
    /\ \A i \in CallIndices(Collaborators) :
          (IsTranslate \/ IsTTS) =>
              \E v \in 1..(i - 1) : last.trace[v].ev = "validate"

RecognitionReturned ==
    HasCall("detect") \/ (HasCall("recognize") /\ last.raised.type = "none")

RecognizedText ==
    IF HasCall("detect")
    THEN last.trace[CHOOSE i \in CallIndices({"detect"}) : TRUE].args[1]
    ELSE <<>>

\* C10 (as claimed): whenever recognition returns text, the
\* /api/speech-to-text request succeeds with recognized_text equal to that
\* text; detected_lang is the detector's code, or None when the text is
\* empty or the detector cannot produce a language.
C10_RecognizedTextSucceeds ==
    (IsSpeech /\ RecognitionReturned) =>
        /\ StatusCode = 200
        /\ Success
        /\ Body.recognized_text = RecognizedText
        /\ Body.detected_lang \in DetectCodes \cup {None}
        /\ Len(RecognizedText) = 0 => Body.detected_lang = None

====
